---- MODULE Spec2Model ----
(***************************************************************************)
(* The DataTable component of src/unnamed/part_003 as a state machine.     *)
(* The React state of the component (the useState cells of lines 206-214), *)
(* the memoised selectedRowsData, and the props data / selectable /        *)
(* rowActions are the variables; every event handler of the component is   *)
(* one action.  The row models, the column order and the column sizes that *)
(* the component reads from @tanstack/react-table (v8) are operators over  *)
(* that state, written as the library computes them.                       *)
(*                                                                         *)
(* JavaScript strings are sequences of one-character strings.              *)
(***************************************************************************)
EXTENDS Integers, Sequences, FiniteSets, TLC

VARIABLES
    data,               \* prop data: the sequence of row records
    selectable,         \* prop selectable
    hasRowActions,      \* prop rowActions given and non-empty
    sorting,            \* useState<SortingState>: sequence of [id, desc]
    columnFilters,      \* useState<ColumnFiltersState>: the applied {id, value} entries
    columnVisibility,   \* useState<VisibilityState>: column id -> BOOLEAN, partial
    columnPinning,      \* useState<ColumnPinningState>: [left, right], user pins only
    rowSelection,       \* useState<RowSelectionState>: the ids whose flag is true
    globalFilter,       \* useState(''): the search term
    filterValues,       \* useState<Record<string, any>>: staged filter inputs, partial
    columnSizing,       \* useState<ColumnSizingState>: column id -> width, partial
    selectedRowsData,   \* useMemo(..., [rowSelection, table]): the memoised projection
    emitted,            \* the calls of the callback props made while the last event
                        \* was handled and the render after it ran, in order
    localValues,        \* AdvancedFilter useState<FilterValues>(values) as of its last
                        \* render: config id -> FilterValue, partial
    pendingValues       \* the arguments of the setLocalValues calls made since then

vars == <<data, selectable, hasRowActions, sorting, columnFilters, columnVisibility,
          columnPinning, rowSelection, globalFilter, filterValues, columnSizing,
          selectedRowsData, emitted, localValues, pendingValues>>

\* the state of the AdvancedFilter component
afVars == <<localValues, pendingValues>>

(***************************************************************************)
(* Bounds of the model.                                                    *)
(***************************************************************************)
NumRows == 3

(***************************************************************************)
(* Strings.                                                                *)
(***************************************************************************)
Digits == <<"0", "1", "2", "3", "4", "5", "6", "7", "8", "9">>

RECURSIVE NumToString(_)
\* Number.prototype.toString() of a non-negative integer
NumToString(n) ==
    IF n < 10 THEN <<Digits[n + 1]>>
    ELSE NumToString(n \div 10) \o <<Digits[(n % 10) + 1]>>

\* String.prototype.toLowerCase(), one character
ToLowerChar(c) ==
    CASE c = "A" -> "a"
      [] c = "B" -> "b"
      [] OTHER   -> c

ToLowerCase(s) == [i \in 1..Len(s) |-> ToLowerChar(s[i])]

\* UTF-16 code unit of a character (what < and > on strings compare)
CharCode(c) ==
    CASE c = " " -> 32
      [] c = "A" -> 65
      [] c = "B" -> 66
      [] c = "a" -> 97
      [] c = "b" -> 98
      [] OTHER   -> 48 + (CHOOSE d \in 0..9 : Digits[d + 1] = c)

\* String.prototype.includes(search)
Includes(s, search) ==
    \E i \in 0..(Len(s) - Len(search)) :
        \A j \in 1..Len(search) : s[i + j] = search[j]

\* String.prototype.trim() for the blank character of the alphabet
RECURSIVE Trim(_)
Trim(s) ==
    IF s = <<>> THEN s
    ELSE IF Head(s) = " " THEN Trim(Tail(s))
    ELSE IF s[Len(s)] = " " THEN Trim(SubSeq(s, 1, Len(s) - 1))
    ELSE s

\* a < b on strings: -1, 0, 1 as compareBasic returns them
RECURSIVE CompareStrings(_, _)
CompareStrings(a, b) ==
    IF a = <<>> /\ b = <<>> THEN 0
    ELSE IF a = <<>> THEN -1
    ELSE IF b = <<>> THEN 1
    ELSE IF CharCode(Head(a)) < CharCode(Head(b)) THEN -1
    ELSE IF CharCode(Head(a)) > CharCode(Head(b)) THEN 1
    ELSE CompareStrings(Tail(a), Tail(b))

(***************************************************************************)
(* The props: column definitions and datasets.                             *)
(***************************************************************************)
\* the data columns handed in as the columns prop, in definition order
UserColumns == <<"name", "status">>

\* header strings of the data columns
HeaderText(col) ==
    CASE col = "name"   -> <<"A", "a", "b", "a">>
      [] col = "status" -> <<"B">>
      [] OTHER          -> <<>>

NamePool == << <<"a", "b">>, <<"B", "a">>, <<"b">>, <<"A", "b", "a">> >>
StatusPool == << <<"b">>, <<"a">>, <<"b", "b", "b", "b", "b">> >>

\* how the rows of a dataset carry their id field
IdVariants == {"ids", "noids", "mixed"}

\* the i-th row (i from 1) of the dataset of variant v
MkRow(i, v) ==
    [hasId  |-> (v = "ids") \/ (v = "mixed" /\ i = 1),
     id     |-> NumToString(i),
     name   |-> NamePool[((i - 1) % Len(NamePool)) + 1],
     status |-> StatusPool[((i - 1) % Len(StatusPool)) + 1]]

MkData(n, v) == [i \in 1..n |-> MkRow(i, v)]

\* the datasets the data prop ranges over
Datasets == {MkData(n, v) : n \in (NumRows - 1)..NumRows, v \in IdVariants}
FullDatasets == {MkData(NumRows, v) : v \in IdVariants}

(***************************************************************************)
(* Column definitions: tableColumns = [...extraColumns, ...columns].       *)
(***************************************************************************)
\* tableColumns, in definition order
TableColumns ==
    (IF selectable THEN <<"select">> ELSE <<>>)
        \o <<"rowNumber">>
        \o (IF hasRowActions THEN <<"rowActions">> ELSE <<>>)
        \o UserColumns

SeqToSet(s) == {s[i] : i \in 1..Len(s)}

SyntheticColumns == {"select", "rowNumber", "rowActions"}

\* the data columns read a field of the row; the synthetic columns have no accessor
HasAccessor(col) == col \in SeqToSet(UserColumns)

\* row.getValue(columnId) for the row record r
GetValue(r, col) ==
    CASE col = "name"   -> r.name
      [] col = "status" -> r.status
      [] OTHER          -> <<>>

\* columnDef.enableSorting, enableHiding, enableResizing, enablePinning, enableColumnFilter
EnableSorting(col) == col \notin SyntheticColumns
EnableHiding(col) == col \notin SyntheticColumns
EnableResizing(col) == col \notin SyntheticColumns
EnablePinning(col) == col \notin {"select", "rowNumber"}
EnableColumnFilter(col) == col \notin {"rowNumber", "rowActions"}

\* defaultColumn of useReactTable
DefaultMinSize == 40
DefaultMaxSize == 600
DefaultSize == 120

\* columnDef.size / minSize / maxSize after defaultColumn is merged in
DefSize(col) ==
    CASE col = "select"     -> 44
      [] col = "rowNumber"  -> 50
      [] col = "rowActions" -> 32
      [] OTHER              -> DefaultSize

DefMinSize(col) ==
    CASE col = "select"     -> 44
      [] col = "rowNumber"  -> 50
      [] col = "rowActions" -> 32
      [] col = "name"       -> 100
      [] OTHER              -> DefaultMinSize

DefMaxSize(col) ==
    CASE col = "select"     -> 44
      [] col = "rowNumber"  -> 50
      [] col = "rowActions" -> 32
      [] col = "status"     -> 48
      [] OTHER              -> DefaultMaxSize

(***************************************************************************)
(* Row identity and the row models.  A row of a row model is its position  *)
(* in data (from 1); its id is getRowId(data[i], i - 1).                   *)
(***************************************************************************)
\* getRowId: (row as any).id?.toString() || index.toString()
GetRowId(r, index) ==
    IF r.hasId /\ r.id # <<>> THEN r.id ELSE NumToString(index)

RowId(i) == GetRowId(data[i], i - 1)

\* getCoreRowModel().rows
CoreRows == [i \in 1..Len(data) |-> i]

\* filterFns.includesString: case-insensitive substring test
IncludesString(r, col, filterValue) ==
    Includes(ToLowerCase(GetValue(r, col)), ToLowerCase(filterValue))

\* the columns the global filter looks at: column.getCanGlobalFilter()
GloballyFilterableColumns ==
    {col \in SeqToSet(TableColumns) : HasAccessor(col) /\ Len(data) > 0}

\* row.columnFilters[id] !== false for every applied filter and for __global__
\* PassesFilters letting a row through that passes any one of the column filters
PassesFilters_AnyFilter(r, cf, gf) ==
    /\ cf # {} => \E f \in cf : f.id \in SeqToSet(TableColumns) /\ IncludesString(r, f.id, f.value)
    /\ (gf # <<>> /\ GloballyFilterableColumns # {}) =>
            \E col \in GloballyFilterableColumns : IncludesString(r, col, gf)

PassesFilters(r, cf, gf) ==
    /\ \A f \in cf :
          f.id \in SeqToSet(TableColumns) => IncludesString(r, f.id, f.value)
    /\ (gf # <<>> /\ GloballyFilterableColumns # {}) =>
          \E col \in GloballyFilterableColumns : IncludesString(r, col, gf)

\* getFilteredRowModel().rows for the applied filters cf and the search term gf
FilteredRowsOf(cf, gf) ==
    IF Len(data) = 0 \/ (cf = {} /\ gf = <<>>) THEN CoreRows
    ELSE SelectSeq(CoreRows, LAMBDA i : PassesFilters(data[i], cf, gf))

FilteredRows == FilteredRowsOf(columnFilters, globalFilter)

\* column.getCanSort()
GetCanSort(col) == EnableSorting(col) /\ HasAccessor(col)

\* the comparator of getSortedRowModel: the sort keys in order (sortingFns.basic
\* on the raw values), then the original position
RECURSIVE CompareRows(_, _, _)
CompareRows(i, j, keys) ==
    IF keys = <<>> THEN i - j
    ELSE LET k == Head(keys)
             c == CompareStrings(GetValue(data[i], k.id), GetValue(data[j], k.id))
         IN  IF ~GetCanSort(k.id) \/ c = 0 THEN CompareRows(i, j, Tail(keys))
             ELSE IF k.desc THEN -c ELSE c

RECURSIVE InsertRow(_, _, _)
InsertRow(i, sorted, keys) ==
    IF sorted = <<>> THEN <<i>>
    ELSE IF CompareRows(i, Head(sorted), keys) < 0 THEN <<i>> \o sorted
    ELSE <<Head(sorted)>> \o InsertRow(i, Tail(sorted), keys)

RECURSIVE SortRows(_, _)
SortRows(rows, keys) ==
    IF rows = <<>> THEN <<>>
    ELSE InsertRow(Head(rows), SortRows(Tail(rows), keys), keys)

\* getSortedRowModel().rows
SortedRows ==
    IF sorting = <<>> \/ FilteredRows = <<>> THEN FilteredRows
    ELSE SortRows(FilteredRows, sorting)

\* getRowModel().rows: the rendered rows (no grouping, expansion or pagination)
RowModel == SortedRows

\* row.getIsSelected()
GetIsSelected(i) == RowId(i) \in rowSelection

\* getFilteredSelectedRowModel().rows.map(row => row.original)
FilteredSelectedRows(sel) ==
    LET rows == SelectSeq(FilteredRows, LAMBDA i : RowId(i) \in sel)
    IN  [k \in 1..Len(rows) |-> data[rows[k]]]

\* the ids of the rows of a row model
IdsOf(rows) == {RowId(rows[k]) : k \in 1..Len(rows)}

(***************************************************************************)
(* Selection.                                                              *)
(***************************************************************************)
\* table.getIsAllRowsSelected()
GetIsAllRowsSelected ==
    /\ FilteredRows # <<>>
    /\ rowSelection # {}
    /\ \A k \in 1..Len(FilteredRows) : RowId(FilteredRows[k]) \in rowSelection

\* table.getIsAllPageRowsSelected()
GetIsAllPageRowsSelected ==
    /\ RowModel # <<>>
    /\ \A k \in 1..Len(RowModel) : RowId(RowModel[k]) \in rowSelection

\* row.toggleSelected() as setRowSelection applies it
ToggledSelection(i) ==
    IF GetIsSelected(i) THEN rowSelection \ {RowId(i)} ELSE rowSelection \cup {RowId(i)}

\* SetRowSelection with onSelectionChange called from the event handler, with the
\* projection it sees before the state is set
SetRowSelection_NotifiesBefore(sel) ==
    /\ rowSelection' = sel
    /\ selectedRowsData' = FilteredSelectedRows(sel)
    /\ UNCHANGED afVars
    /\ emitted' = <<[fn |-> "onSelectionChange", arg |-> selectedRowsData]>>

\* one call of a callback prop
Call(fn, arg) == [fn |-> fn, arg |-> arg]

\* setRowSelection with a new object: the state cell changes and the render that
\* follows recomputes the memo of selectedRowsData, whose dependency it is; the
\* second memo, whose dependency selectedRowsData is, then calls onSelectionChange
SetRowSelection(sel) ==
    /\ rowSelection' = sel
    /\ selectedRowsData' = FilteredSelectedRows(sel)
    /\ UNCHANGED afVars
    /\ emitted' = <<Call("onSelectionChange", FilteredSelectedRows(sel))>>

\* row.toggleSelected(): the checkbox of a rendered row, or a click on one of its cells
ToggleRowSelected(i) ==
    /\ selectable
    /\ i \in SeqToSet(RowModel)
    /\ SetRowSelection(IF GetIsSelected(i) THEN rowSelection \ {RowId(i)}
                       ELSE rowSelection \cup {RowId(i)})
    /\ UNCHANGED <<data, selectable, hasRowActions, sorting, columnFilters,
                   columnVisibility, columnPinning, globalFilter, filterValues,
                   columnSizing>>

\* ToggleAllRowsSelected working on every row of the dataset instead of the filtered rows
ToggleAllRowsSelected_Unfiltered ==
    /\ selectable
    /\ SetRowSelection(IF ~GetIsAllRowsSelected THEN rowSelection \cup IdsOf(CoreRows)
                       ELSE rowSelection \ IdsOf(CoreRows))
    /\ UNCHANGED <<data, selectable, hasRowActions, sorting, columnFilters,
                   columnVisibility, columnPinning, globalFilter, filterValues,
                   columnSizing>>

\* the Select All / Deselect All button: table.toggleAllRowsSelected()
ToggleAllRowsSelected ==
    /\ selectable
    /\ SetRowSelection(IF ~GetIsAllRowsSelected THEN rowSelection \cup IdsOf(FilteredRows)
                       ELSE rowSelection \ IdsOf(FilteredRows))
    /\ UNCHANGED <<data, selectable, hasRowActions, sorting, columnFilters,
                   columnVisibility, columnPinning, globalFilter, filterValues,
                   columnSizing>>

\* the header checkbox: table.toggleAllPageRowsSelected(!!value), where value is
\* false when the box is checked and true when it is unchecked or indeterminate
ToggleAllPageRowsSelected ==
    /\ selectable
    /\ SetRowSelection(IF ~GetIsAllPageRowsSelected THEN rowSelection \cup IdsOf(RowModel)
                       ELSE rowSelection \ IdsOf(RowModel))
    /\ UNCHANGED <<data, selectable, hasRowActions, sorting, columnFilters,
                   columnVisibility, columnPinning, globalFilter, filterValues,
                   columnSizing>>

\* the Clear Selection button: setRowSelection({})
ClearSelection ==
    /\ selectable
    /\ rowSelection # {}
    /\ SetRowSelection({})
    /\ UNCHANGED <<data, selectable, hasRowActions, sorting, columnFilters,
                   columnVisibility, columnPinning, globalFilter, filterValues,
                   columnSizing>>

(***************************************************************************)
(* Filters and search.                                                     *)
(***************************************************************************)
\* filterConfigs: the columns of the columns prop with an id and enableColumnFilter
FilterConfigIds == {col \in SeqToSet(UserColumns) : EnableColumnFilter(col)}

\* ActiveFilters without the trim: only the empty string is dropped
ActiveFilters_NoTrim(fv) ==
    {[id |-> id, value |-> fv[id]] : id \in {x \in DOMAIN fv : fv[x] # <<>>}}

\* the entries of filterValues that handleApplyFilters keeps
ActiveFilters(fv) ==
    {[id |-> id, value |-> fv[id]] : id \in {x \in DOMAIN fv : Trim(fv[x]) # <<>>}}

\* HandleFilterChange that filters as the user types
HandleFilterChange_AppliesAtOnce(filterId, value) ==
    /\ filterId \in FilterConfigIds
    /\ filterValues' = (filterId :> value) @@ filterValues
    /\ columnFilters' = ActiveFilters((filterId :> value) @@ filterValues)
    /\ UNCHANGED afVars
    /\ emitted' = <<>>
    /\ UNCHANGED <<data, selectable, hasRowActions, sorting, columnVisibility,
                   columnPinning, rowSelection, globalFilter, columnSizing,
                   selectedRowsData>>

\* handleFilterChange(filterId, value)
HandleFilterChange(filterId, value) ==
    /\ filterId \in FilterConfigIds
    /\ filterValues' = (filterId :> value) @@ filterValues
    /\ UNCHANGED afVars
    /\ emitted' = <<>>
    /\ UNCHANGED <<data, selectable, hasRowActions, sorting, columnFilters,
                   columnVisibility, columnPinning, rowSelection, globalFilter,
                   columnSizing, selectedRowsData>>

\* HandleApplyFilters handing every staged entry to onFilterApply
HandleApplyFilters_NotifiesStaged ==
    /\ FilterConfigIds # {}
    /\ columnFilters' = ActiveFilters(filterValues)
    /\ UNCHANGED afVars
    /\ emitted' = <<Call("onFilterApply",
                         {[id |-> id, value |-> filterValues[id]] : id \in DOMAIN filterValues})>>
    /\ UNCHANGED <<data, selectable, hasRowActions, sorting, columnVisibility,
                   columnPinning, rowSelection, globalFilter, filterValues,
                   columnSizing, selectedRowsData>>

\* handleApplyFilters()
HandleApplyFilters ==
    /\ FilterConfigIds # {}
    /\ columnFilters' = ActiveFilters(filterValues)
    /\ UNCHANGED afVars
    /\ emitted' = <<Call("onFilterApply", ActiveFilters(filterValues))>>
    /\ UNCHANGED <<data, selectable, hasRowActions, sorting, columnVisibility,
                   columnPinning, rowSelection, globalFilter, filterValues,
                   columnSizing, selectedRowsData>>

\* HandleClearFilters that also resets the selection
HandleClearFilters_DropsSelection ==
    /\ FilterConfigIds # {}
    /\ filterValues' = <<>>
    /\ columnFilters' = {}
    /\ globalFilter' = <<>>
    /\ SetRowSelection({})
    /\ UNCHANGED <<data, selectable, hasRowActions, sorting, columnVisibility,
                   columnPinning, columnSizing>>

\* HandleClearFilters that leaves the search term as it is
HandleClearFilters_KeepsSearch ==
    /\ FilterConfigIds # {}
    /\ filterValues' = <<>>
    /\ columnFilters' = {}
    /\ UNCHANGED afVars
    /\ emitted' = <<Call("onClear", <<>>)>>
    /\ UNCHANGED <<data, selectable, hasRowActions, sorting, columnVisibility,
                   columnPinning, rowSelection, globalFilter, columnSizing,
                   selectedRowsData>>

\* handleClearFilters()
HandleClearFilters ==
    /\ FilterConfigIds # {}
    /\ filterValues' = <<>>
    /\ columnFilters' = {}
    /\ globalFilter' = <<>>
    /\ UNCHANGED afVars
    /\ emitted' = <<Call("onClear", <<>>)>>
    /\ UNCHANGED <<data, selectable, hasRowActions, sorting, columnVisibility,
                   columnPinning, rowSelection, columnSizing, selectedRowsData>>

\* the search box: setGlobalFilter(e.target.value), and its X button with ''
SetGlobalFilter(value) ==
    /\ globalFilter' = value
    /\ UNCHANGED afVars
    /\ emitted' = <<>>
    /\ UNCHANGED <<data, selectable, hasRowActions, sorting, columnFilters,
                   columnVisibility, columnPinning, rowSelection, filterValues,
                   columnSizing, selectedRowsData>>

(***************************************************************************)
(* Sorting: a click on a column header.                                    *)
(***************************************************************************)
\* column.getIsSorted(): "asc", "desc" or "none"
GetIsSorted(col) ==
    IF \E k \in 1..Len(sorting) : sorting[k].id = col
    THEN LET k == CHOOSE k \in 1..Len(sorting) : sorting[k].id = col
         IN  IF sorting[k].desc THEN "desc" ELSE "asc"
    ELSE "none"

\* column.getFirstSortDir(): "asc" when the first filtered row holds a string
GetFirstSortDir(col) == IF FilteredRows # <<>> THEN "asc" ELSE "desc"

\* column.getNextSortingOrder(): "asc", "desc" or "none" (sorting removal is enabled)
GetNextSortingOrder(col) ==
    LET first == GetFirstSortDir(col)
        isSorted == GetIsSorted(col)
    IN  IF isSorted = "none" THEN first
        ELSE IF isSorted # first THEN "none"
        ELSE IF isSorted = "desc" THEN "asc" ELSE "desc"

\* column.toggleSorting(undefined, multi) as setSorting applies it to old
ToggleSortingOf(old, col, multi, nextOrder) ==
    LET exists == \E k \in 1..Len(old) : old[k].id = col
        isLast == old # <<>> /\ old[Len(old)].id = col
        nextDesc == (nextOrder = "desc")
        action0 ==
            IF old # <<>> /\ multi THEN (IF exists THEN "toggle" ELSE "add")
            ELSE IF old # <<>> /\ ~isLast THEN "replace"
            ELSE IF exists THEN "toggle"
            ELSE "replace"
        action == IF action0 = "toggle" /\ nextOrder = "none" THEN "remove" ELSE action0
    IN  CASE action = "add"    -> Append(old, [id |-> col, desc |-> nextDesc])
          [] action = "toggle" ->
                [k \in 1..Len(old) |->
                    IF old[k].id = col THEN [id |-> col, desc |-> nextDesc] ELSE old[k]]
          [] action = "remove" -> SelectSeq(old, LAMBDA e : e.id # col)
          [] OTHER             -> <<[id |-> col, desc |-> nextDesc]>>

\* header onClick: column.getToggleSortingHandler(); multi is the shift key
ToggleSorting(col, multi) ==
    /\ col \in SeqToSet(TableColumns)
    /\ sorting' = IF GetCanSort(col)
                  THEN ToggleSortingOf(sorting, col, multi, GetNextSortingOrder(col))
                  ELSE sorting
    /\ UNCHANGED afVars
    /\ emitted' = <<>>
    /\ UNCHANGED <<data, selectable, hasRowActions, columnFilters, columnVisibility,
                   columnPinning, rowSelection, globalFilter, filterValues,
                   columnSizing, selectedRowsData>>

(***************************************************************************)
(* Column visibility, pinning and order.                                   *)
(***************************************************************************)
\* column.getIsVisible()
GetIsVisible(col) ==
    IF col \in DOMAIN columnVisibility THEN columnVisibility[col] ELSE TRUE

\* column.getCanHide(), column.getCanPin(), column.getCanResize()
GetCanHide(col) == EnableHiding(col)
GetCanPin(col) == EnablePinning(col)
GetCanResize(col) == EnableResizing(col)

\* leftPinnedColumns and rightPinnedColumns of state.columnPinning
ForcedLeft == IF selectable THEN <<"select", "rowNumber">> ELSE <<"rowNumber">>
ForcedRight == IF hasRowActions THEN <<"rowActions">> ELSE <<>>

Without(s, ids) == SelectSeq(s, LAMBDA c : c \notin ids)

\* PinnedLeft with the user's pins put before the forced ones
PinnedLeft_UserFirst == Without(columnPinning.left, SeqToSet(ForcedLeft)) \o ForcedLeft

\* state.columnPinning.left as handed to useReactTable
PinnedLeft == ForcedLeft \o Without(columnPinning.left, SeqToSet(ForcedLeft))

\* state.columnPinning.right as handed to useReactTable
PinnedRight == ForcedRight \o Without(columnPinning.right, SeqToSet(ForcedRight))

\* column.getIsPinned(): "left", "right" or "none"
GetIsPinned(col) ==
    IF col \in SeqToSet(PinnedLeft) THEN "left"
    ELSE IF col \in SeqToSet(PinnedRight) THEN "right"
    ELSE "none"

IsRendered(col) == col \in SeqToSet(TableColumns) /\ GetIsVisible(col)

\* the headers of getHeaderGroups() and the cells of row.getVisibleCells(), in order:
\* the visible left-pinned columns, the visible unpinned ones, the visible right-pinned
RenderedColumns ==
    SelectSeq(PinnedLeft, IsRendered)
        \o SelectSeq(TableColumns,
                     LAMBDA c : GetIsVisible(c) /\ c \notin SeqToSet(PinnedLeft)
                                                /\ c \notin SeqToSet(PinnedRight))
        \o SelectSeq(PinnedRight, IsRendered)

\* PanelColumns listing every column of the table
PanelColumns_All == SeqToSet(TableColumns)

\* the rows of the Columns panel: getAllColumns().filter(column => column.getCanHide())
PanelColumns == {col \in SeqToSet(TableColumns) : GetCanHide(col)}

\* the pin buttons of a panel row are rendered
HasPinControls(col) ==
    /\ col \in PanelColumns
    /\ GetIsVisible(col)
    /\ GetCanPin(col)
    /\ col \notin {"select", "rowNumber"}

\* column.pin(position) for position "left", "right" or "none" (false)
PinOf(old, col, position) ==
    [left  |-> Without(old.left, {col}) \o (IF position = "left" THEN <<col>> ELSE <<>>),
     right |-> Without(old.right, {col}) \o (IF position = "right" THEN <<col>> ELSE <<>>)]

\* a pin button of the Columns panel; a button is disabled while its side is current
PinColumn(col, position) ==
    /\ HasPinControls(col)
    /\ GetIsPinned(col) # position
    /\ columnPinning' = PinOf(columnPinning, col, position)
    /\ UNCHANGED afVars
    /\ emitted' = <<>>
    /\ UNCHANGED <<data, selectable, hasRowActions, sorting, columnFilters,
                   columnVisibility, rowSelection, globalFilter, filterValues,
                   columnSizing, selectedRowsData>>

\* ResetColumnPinning that also shows every hidden column again
ResetColumnPinning_AlsoShowsAll ==
    /\ columnPinning' = [left |-> <<>>, right |-> <<>>]
    /\ columnVisibility' = <<>>
    /\ UNCHANGED afVars
    /\ emitted' = <<>>
    /\ UNCHANGED <<data, selectable, hasRowActions, sorting, columnFilters,
                   rowSelection, globalFilter, filterValues, columnSizing,
                   selectedRowsData>>

\* the Unpin All button: table.resetColumnPinning()
ResetColumnPinning ==
    /\ columnPinning' = [left |-> <<>>, right |-> <<>>]
    /\ UNCHANGED afVars
    /\ emitted' = <<>>
    /\ UNCHANGED <<data, selectable, hasRowActions, sorting, columnFilters,
                   columnVisibility, rowSelection, globalFilter, filterValues,
                   columnSizing, selectedRowsData>>

\* the visibility checkbox of a panel row: column.toggleVisibility(!!value)
ToggleVisibility(col) ==
    /\ col \in PanelColumns
    /\ columnVisibility' = (col :> ~GetIsVisible(col)) @@ columnVisibility
    /\ UNCHANGED afVars
    /\ emitted' = <<>>
    /\ UNCHANGED <<data, selectable, hasRowActions, sorting, columnFilters,
                   columnPinning, rowSelection, globalFilter, filterValues,
                   columnSizing, selectedRowsData>>

(***************************************************************************)
(* Clicks in the body of the table.                                        *)
(***************************************************************************)
\* the elements of a body cell a click can land on: the cell itself (the td and the
\* div with its text), the button of the row menu, the checkbox of the select cell
CellTargets(col) ==
    CASE col = "rowActions" -> {"cell", "button"}
      [] col = "select"     -> {"cell", "checkbox"}
      [] OTHER              -> {"cell"}

\* the td onClick calls row.toggleSelected(), and with it e.stopPropagation()
TdToggles(col, target) ==
    selectable /\ col # "select" /\ col # "rowNumber" /\ target = "cell"

\* TrRuns for a td that does not stop the event
TrRuns_NoStop(col, target) == target = "cell"

\* the tr onClick gets the event and goes past its first return: the checkbox and the
\* menu button stop the event in their own onClick, the td stops it when it toggles
TrRuns(col, target) == target = "cell" /\ ~TdToggles(col, target)

\* the handlers that call row.toggleSelected() for one click, in the order they run
TogglingHandlers(col, target) ==
    (IF target = "checkbox" THEN <<"checkbox">> ELSE <<>>)
        \o (IF TdToggles(col, target) THEN <<"td">> ELSE <<>>)
        \o (IF TrRuns(col, target) /\ selectable THEN <<"tr">> ELSE <<>>)

\* a click in the cell of column col of the rendered row i: the onCheckedChange of
\* the checkbox, the onClick of the td, then, unless the event was stopped, the
\* onClick of the tr; every row.toggleSelected() of the click reads the selection
\* flag of the last render
ClickCell(i, col, target) ==
    LET toggles == TogglingHandlers(col, target) # <<>>
        rowClick == IF TrRuns(col, target) THEN <<Call("onRowClick", data[i])>> ELSE <<>>
    IN  /\ target \in CellTargets(col)
        /\ IsRendered(col)
        /\ i \in SeqToSet(RowModel)
        /\ IF toggles
           THEN /\ rowSelection' = ToggledSelection(i)
                /\ selectedRowsData' = FilteredSelectedRows(ToggledSelection(i))
                /\ UNCHANGED afVars
                /\ emitted' = rowClick \o
                      <<Call("onSelectionChange", FilteredSelectedRows(ToggledSelection(i)))>>
           ELSE /\ UNCHANGED <<rowSelection, selectedRowsData>>
                /\ UNCHANGED afVars
                /\ emitted' = rowClick
        /\ UNCHANGED <<data, selectable, hasRowActions, sorting, columnFilters,
                       columnVisibility, columnPinning, globalFilter, filterValues,
                       columnSizing>>

(***************************************************************************)
(* Column sizes.                                                           *)
(***************************************************************************)
Max(a, b) == IF a >= b THEN a ELSE b
Min(a, b) == IF a <= b THEN a ELSE b

\* GetSize returning the stored width as it is
GetSize_Unclamped(col) ==
    IF col \in DOMAIN columnSizing THEN columnSizing[col] ELSE DefSize(col)

\* column.getSize(): the width of the th and td of the column
GetSize(col) ==
    Min(Max(DefMinSize(col),
            IF col \in DOMAIN columnSizing THEN columnSizing[col] ELSE DefSize(col)),
        DefMaxSize(col))

\* ResizedSizing adding the pointer movement to the width stored, not to startSize
ResizedSizing_Accumulates(sizing, startSize, col, proposed) ==
    LET deltaOffset == proposed - startSize
        stored == IF col \in DOMAIN sizing THEN sizing[col] ELSE startSize
    IN  (col :> Max(stored + deltaOffset, 0)) @@ sizing

\* the sizing state after a drag that began at width startSize and moved the pointer
\* to the width proposed: the column gets max(startSize + deltaOffset, 0)
ResizedSizing(sizing, startSize, col, proposed) ==
    LET deltaOffset == proposed - startSize
    IN  (col :> Max(startSize + deltaOffset, 0)) @@ sizing

\* a drag of the resize handle that moves the pointer to the width proposed:
\* header.getResizeHandler() in onChange mode stores max(startSize + delta, 0)
ResizeColumn(col, proposed) ==
    /\ IsRendered(col)
    /\ GetCanResize(col)
    /\ columnSizing' = ResizedSizing(columnSizing, GetSize(col), col, proposed)
    /\ UNCHANGED afVars
    /\ emitted' = <<>>
    /\ UNCHANGED <<data, selectable, hasRowActions, sorting, columnFilters,
                   columnVisibility, columnPinning, rowSelection, globalFilter,
                   filterValues, selectedRowsData>>

\* the text the auto-fit measures in the cell of row r
CellText(r, col) == IF col = "rowNumber" THEN <<"9", "9", "9">> ELSE GetValue(r, col)

RECURSIVE MaxContentWidth(_, _, _)
\* rows.forEach(row => maxWidth = Math.max(maxWidth, cellText.length * 6 + 20))
MaxContentWidth(rows, col, maxWidth) ==
    IF rows = <<>> THEN maxWidth
    ELSE MaxContentWidth(Tail(rows), col,
                         Max(maxWidth, Len(CellText(data[Head(rows)], col)) * 6 + 20))

\* AutoFitWidthOf measuring the rows of the whole dataset
AutoFitWidthOf_AllRows(col, rows) ==
    LET headerWidth == Max(40, Len(HeaderText(col)) * 6 + 40)
        maxWidth == MaxContentWidth(CoreRows, col, headerWidth)
    IN  Min(Max(maxWidth, DefMinSize(col)), DefMaxSize(col))

\* finalWidth of the double-click handler, measuring the rows given
AutoFitWidthOf(col, rows) ==
    LET headerWidth == Max(40, Len(HeaderText(col)) * 6 + 40)
        maxWidth == MaxContentWidth(rows, col, headerWidth)
        minSize == IF DefMinSize(col) # 0 THEN DefMinSize(col) ELSE 40
        maxSize == IF DefMaxSize(col) # 0 THEN DefMaxSize(col) ELSE 600
    IN  Min(Max(maxWidth, minSize), maxSize)

\* onDoubleClick of the resize handle
AutoFitColumn(col) ==
    /\ IsRendered(col)
    /\ GetCanResize(col)
    /\ columnSizing' = (col :> AutoFitWidthOf(col, FilteredRows)) @@ columnSizing
    /\ UNCHANGED afVars
    /\ emitted' = <<>>
    /\ UNCHANGED <<data, selectable, hasRowActions, sorting, columnFilters,
                   columnVisibility, columnPinning, rowSelection, globalFilter,
                   filterValues, selectedRowsData>>

(***************************************************************************)
(* Sticky offsets of the pinned columns.                                   *)
(***************************************************************************)
RECURSIVE SumSizes(_)
\* columns.reduce((sum, column) => sum + column.getSize(), 0)
SumSizes(cols) == IF cols = <<>> THEN 0 ELSE GetSize(Head(cols)) + SumSizes(Tail(cols))

\* table.getLeftVisibleLeafColumns() and table.getRightVisibleLeafColumns()
LeftVisibleLeafColumns == SelectSeq(PinnedLeft, IsRendered)
RightVisibleLeafColumns == SelectSeq(PinnedRight, IsRendered)

\* column.getIndex(position): the place of the column among cols, from 1
GetIndex(cols, col) == CHOOSE k \in 1..Len(cols) : cols[k] = col

\* GetStart summing the widths of the hidden left-pinned columns as well
GetStart_CountsHidden(col) ==
    LET cols == SelectSeq(PinnedLeft, LAMBDA c : c \in SeqToSet(TableColumns))
    IN  SumSizes(SubSeq(cols, 1, GetIndex(cols, col) - 1))

\* column.getStart('left') of a visible left-pinned column: the left offset of its
\* th and td
GetStart(col) ==
    SumSizes(SubSeq(LeftVisibleLeafColumns, 1, GetIndex(LeftVisibleLeafColumns, col) - 1))

\* column.getAfter('right') of a visible right-pinned column: the right offset
GetAfter(col) ==
    SumSizes(SubSeq(RightVisibleLeafColumns, GetIndex(RightVisibleLeafColumns, col) + 1,
                    Len(RightVisibleLeafColumns)))

(***************************************************************************)
(* The bulk actions toolbar.                                               *)
(***************************************************************************)
\* the bulkActions prop: one action with a confirmMessage, one without it that has
\* a disabled predicate, rows => rows.length > maxRows
BulkActions ==
    {[label |-> "delete", hasConfirmMessage |-> TRUE, hasDisabled |-> FALSE, maxRows |-> 0],
     [label |-> "export", hasConfirmMessage |-> FALSE, hasDisabled |-> TRUE, maxRows |-> 1]}

\* action.disabled?.(rows) || false
IsDisabled(action, rows) == action.hasDisabled /\ Len(rows) > action.maxRows

\* the toolbar is rendered
BulkToolbarShown == selectable /\ BulkActions # {} /\ Len(selectedRowsData) > 0

\* handleClick of the button of a bulk action; accepted is the answer to confirm()
BulkActionClick(action, accepted) ==
    LET onClick == <<Call("bulkAction.onClick",
                          [label |-> action.label, rows |-> selectedRowsData])>>
    IN  /\ BulkToolbarShown
        /\ action \in BulkActions
        /\ ~IsDisabled(action, selectedRowsData)
        /\ action.hasConfirmMessage \/ accepted
        /\ UNCHANGED afVars
        /\ emitted' = IF action.hasConfirmMessage
                      THEN <<Call("confirm", Len(selectedRowsData))>>
                              \o (IF accepted THEN onClick ELSE <<>>)
                      ELSE onClick
        /\ UNCHANGED <<data, selectable, hasRowActions, sorting, columnFilters,
                       columnVisibility, columnPinning, rowSelection, globalFilter,
                       filterValues, columnSizing, selectedRowsData>>

(***************************************************************************)
(* The parent hands in another data prop.                                  *)
(***************************************************************************)
SetData(d) ==
    /\ d # data
    /\ data' = d
    /\ UNCHANGED afVars
    /\ emitted' = <<>>
    /\ UNCHANGED <<selectable, hasRowActions, sorting, columnFilters, columnVisibility,
                   columnPinning, rowSelection, globalFilter, filterValues,
                   columnSizing, selectedRowsData>>

(***************************************************************************)
(* Initial state: the first render.                                        *)
(***************************************************************************)
InitState ==
    /\ sorting = <<>>
    /\ columnFilters = {}
    /\ columnVisibility = <<>>
    /\ columnPinning = [left |-> <<>>, right |-> <<>>]
    /\ rowSelection = {}
    /\ globalFilter = <<>>
    /\ filterValues = <<>>
    /\ columnSizing = <<>>
    /\ selectedRowsData = <<>>
    /\ emitted = <<Call("onSelectionChange", <<>>)>>
    /\ localValues = <<>>
    /\ pendingValues = <<>>

\* the inputs typed into the filter fields and the search box
FilterTerms == {<<>>, <<"A">>}
SearchTerms == {<<>>, <<"B", "a">>}

(***************************************************************************)
(* Spec: selection, staged and applied filters, search.                    *)
(***************************************************************************)
Init ==
    /\ data \in FullDatasets
    /\ selectable = TRUE
    /\ hasRowActions = FALSE
    /\ InitState

Next ==
    \/ \E i \in 1..Len(data) : ToggleRowSelected(i)
    \/ ToggleAllRowsSelected
    \/ ToggleAllPageRowsSelected
    \/ ClearSelection
    \/ \E id \in FilterConfigIds, v \in FilterTerms : HandleFilterChange(id, v)
    \/ HandleApplyFilters
    \/ HandleClearFilters
    \/ \E v \in SearchTerms : SetGlobalFilter(v)

Spec == Init /\ [][Next]_vars

(***************************************************************************)
(* SpecSort: the same with header clicks; one term for the filter fields.  *)
(***************************************************************************)
SortFilterTerms == {<<"a">>}

NextSort ==
    \/ \E i \in 1..Len(data) : ToggleRowSelected(i)
    \/ ToggleAllRowsSelected
    \/ \E id \in FilterConfigIds, v \in SortFilterTerms : HandleFilterChange(id, v)
    \/ HandleApplyFilters
    \/ HandleClearFilters
    \/ \E v \in SearchTerms : SetGlobalFilter(v)
    \/ \E col \in SeqToSet(TableColumns), multi \in BOOLEAN : ToggleSorting(col, multi)

\* datasets in which getRowId gives every row an identity of its own
InitSort ==
    /\ data \in {MkData(NumRows, "ids"), MkData(NumRows, "noids")}
    /\ selectable = TRUE
    /\ hasRowActions = FALSE
    /\ InitState

SpecSort == InitSort /\ [][NextSort]_vars

(***************************************************************************)
(* SpecData: selection while the parent replaces the data prop by a        *)
(* dataset with rows removed from, or added at, the end.                   *)
(***************************************************************************)
IsPrefix(a, b) == Len(a) <= Len(b) /\ \A i \in 1..Len(a) : a[i] = b[i]

InitData ==
    /\ data \in Datasets
    /\ selectable = TRUE
    /\ hasRowActions = FALSE
    /\ InitState

NextData ==
    \/ \E i \in 1..Len(data) : ToggleRowSelected(i)
    \/ ToggleAllRowsSelected
    \/ ClearSelection
    \/ \E v \in SearchTerms : SetGlobalFilter(v)
    \/ \E d \in Datasets : (IsPrefix(d, data) \/ IsPrefix(data, d)) /\ SetData(d)

SpecData == InitData /\ [][NextData]_vars

(***************************************************************************)
(* SpecColumns: the Columns panel, for each value of the props selectable  *)
(* and rowActions.                                                         *)
(***************************************************************************)
InitColumns ==
    /\ data = MkData(NumRows, "ids")
    /\ selectable \in BOOLEAN
    /\ hasRowActions \in BOOLEAN
    /\ InitState

PinPositions == {"left", "right", "none"}

NextColumns ==
    \/ \E col \in SeqToSet(TableColumns), pos \in PinPositions : PinColumn(col, pos)
    \/ ResetColumnPinning
    \/ \E col \in SeqToSet(TableColumns) : ToggleVisibility(col)

SpecColumns == InitColumns /\ [][NextColumns]_vars

(***************************************************************************)
(* SpecSizing: drag-resize and auto-fit under changing filters.            *)
(***************************************************************************)
\* the widths a drag proposes
ResizeWidths == {0, 30, 100, 700}

NextSizing ==
    \/ \E col \in SeqToSet(TableColumns), w \in ResizeWidths : ResizeColumn(col, w)
    \/ \E col \in SeqToSet(TableColumns) : AutoFitColumn(col)
    \/ \E id \in FilterConfigIds, v \in SortFilterTerms : HandleFilterChange(id, v)
    \/ HandleApplyFilters
    \/ HandleClearFilters
    \/ \E v \in SearchTerms : SetGlobalFilter(v)

SpecSizing == InitColumns /\ [][NextSizing]_vars

(***************************************************************************)
(* What the component shows.                                               *)
(***************************************************************************)
\* the rowNumber cell of row i: filteredRows.findIndex(r => r.id === row.id) + 1
RowNumberShown(i) ==
    IF \E k \in 1..Len(FilteredRows) : RowId(FilteredRows[k]) = RowId(i)
    THEN CHOOSE k \in 1..Len(FilteredRows) :
            /\ RowId(FilteredRows[k]) = RowId(i)
            /\ \A m \in 1..(k - 1) : RowId(FilteredRows[m]) # RowId(i)
    ELSE 0

\* the "N selected" of the header: Object.keys(rowSelection).filter(...).length
SelectedCountShown == Cardinality(rowSelection)

\* a filter or a search term is in effect and hides at least one row
FilterHidesRows == Len(FilteredRows) < Len(data)

(***************************************************************************)
(* C1.  The selected-row projection selectedRowsData is, in every state,   *)
(* exactly the set of rows that are in the selection set and in the        *)
(* current filtered view.                                                  *)
(***************************************************************************)
C1_ProjectionIsSelectedAndFiltered ==
    SeqToSet(selectedRowsData) =
        {data[FilteredRows[k]] :
            k \in {m \in 1..Len(FilteredRows) : RowId(FilteredRows[m]) \in rowSelection}}

(***************************************************************************)
(* C2.  The selection set holds only identities of rows of the current     *)
(* dataset, so the selected count shown never counts a removed row.        *)
(***************************************************************************)
C2_SelectionWithinDataset ==
    /\ rowSelection \subseteq IdsOf(CoreRows)
    /\ SelectedCountShown = Cardinality(rowSelection \cap IdsOf(CoreRows))

C4_SelectionSurvivesFilterAndSort ==
    [][(\/ filterValues' # filterValues
        \/ columnFilters' # columnFilters
        \/ globalFilter' # globalFilter
        \/ sorting' # sorting)
       => /\ rowSelection \subseteq rowSelection'
          /\ \A i \in 1..Len(data) : GetIsSelected(i) => GetIsSelected(i)']_vars

\* a selected row is hidden by the filters while a sort is in effect
C4_Witness ==
    /\ sorting # <<>>
    /\ \E i \in 1..Len(data) :
          /\ GetIsSelected(i)
          /\ i \notin SeqToSet(FilteredRows)

(***************************************************************************)
(* C5.  With row actions configured, the rowActions column is the last     *)
(* rendered column.                                                        *)
(***************************************************************************)
C5_RowActionsLast ==
    hasRowActions => RenderedColumns[Len(RenderedColumns)] = "rowActions"

(***************************************************************************)
(* C6.  With selection enabled, select and rowNumber are the first and the *)
(* second rendered column; with selection disabled, rowNumber is the first.*)
(***************************************************************************)
C6_SelectAndRowNumberFirst ==
    IF selectable
    THEN /\ Len(RenderedColumns) >= 2
         /\ RenderedColumns[1] = "select"
         /\ RenderedColumns[2] = "rowNumber"
    ELSE /\ Len(RenderedColumns) >= 1
         /\ RenderedColumns[1] = "rowNumber"

\* selection is on, a data column is pinned left by the user and another is hidden
C6_Witness ==
    /\ selectable
    /\ \E c \in SeqToSet(UserColumns) : c \in SeqToSet(columnPinning.left) /\ GetIsVisible(c)
    /\ \E c \in SeqToSet(UserColumns) : ~GetIsVisible(c)

(***************************************************************************)
(* C7.  The row number shown in the k-th rendered row is k.                *)
(***************************************************************************)
C7_NumbersFollowDisplayOrder ==
    \A k \in 1..Len(RowModel) : RowNumberShown(RowModel[k]) = k

(***************************************************************************)
(* C8.  The row numbers shown in the n rendered rows are the numbers 1..n, *)
(* each once, and the rendered rows are exactly the filtered rows.         *)
(***************************************************************************)
C8_NumbersArePermutation ==
    /\ SeqToSet(RowModel) = SeqToSet(FilteredRows)
    /\ {RowNumberShown(RowModel[k]) : k \in 1..Len(RowModel)} = 1..Len(RowModel)
    /\ \A k, m \in 1..Len(RowModel) :
          RowNumberShown(RowModel[k]) = RowNumberShown(RowModel[m]) => k = m

(***************************************************************************)
(* C9.  The width of every column is within [minSize, maxSize] of its      *)
(* definition (else 40 and 600) in every state; a drag to a width below    *)
(* minSize yields minSize, one to a width above maxSize yields maxSize,    *)
(* and any other the width proposed.                                       *)
(***************************************************************************)
C9_SizeWithinBounds ==
    /\ [](\A col \in SeqToSet(TableColumns) :
            DefMinSize(col) <= GetSize(col) /\ GetSize(col) <= DefMaxSize(col))
    /\ [][\A col \in SeqToSet(TableColumns), w \in ResizeWidths :
            ResizeColumn(col, w) =>
                GetSize(col)' = (IF w < DefMinSize(col) THEN DefMinSize(col)
                                 ELSE IF w > DefMaxSize(col) THEN DefMaxSize(col)
                                 ELSE w)]_vars

\* one column was dragged below its minSize and another above its maxSize
C9_Witness ==
    /\ \E col \in DOMAIN columnSizing : columnSizing[col] < DefMinSize(col)
    /\ \E col \in DOMAIN columnSizing : columnSizing[col] > DefMaxSize(col)

(***************************************************************************)
(* C10.  A double-click auto-fit sets the width of its column to the       *)
(* maximum of 40, header length * 6 + 40 and text length * 6 + 20 of the   *)
(* rows that pass the applied filters and the search, clamped to           *)
(* [minSize, maxSize], and leaves the sizes of the other columns alone.    *)
(***************************************************************************)
SetMax(S) == CHOOSE x \in S : \A y \in S : y <= x

C10_AutoFitUsesFilteredRows ==
    [][\A col \in SeqToSet(TableColumns) :
        AutoFitColumn(col) =>
            LET shown == {i \in 1..Len(data) :
                             PassesFilters(data[i], columnFilters, globalFilter)}
                widest == SetMax({40, Len(HeaderText(col)) * 6 + 40}
                                 \cup {Len(GetValue(data[i], col)) * 6 + 20 : i \in shown})
            IN  /\ columnSizing'[col] = Min(Max(widest, DefMinSize(col)), DefMaxSize(col))
                /\ \A c \in DOMAIN columnSizing' \ {col} :
                      c \in DOMAIN columnSizing /\ columnSizing'[c] = columnSizing[c]
                /\ DOMAIN columnSizing \subseteq DOMAIN columnSizing']_vars

\* status was auto-fitted while the filters hide the row with the widest status
C10_Witness ==
    /\ FilterHidesRows
    /\ "status" \in DOMAIN columnSizing
    /\ columnSizing["status"] = AutoFitWidthOf("status", FilteredRows)
    /\ columnSizing["status"] # AutoFitWidthOf("status", CoreRows)

(***************************************************************************)
(* SpecFrame: every state cell can leave its initial value, with both      *)
(* props on: selection, a sort key, pins, a hidden column, a stored width, *)
(* staged and applied filters, a search term; then Clear All and Unpin All.*)
(***************************************************************************)
InitFrame ==
    /\ data = MkData(NumRows, "ids")
    /\ selectable = TRUE
    /\ hasRowActions = TRUE
    /\ InitState

FrameWidth == 700

NextFrame ==
    \/ ToggleAllRowsSelected
    \/ ToggleSorting("name", FALSE)
    \/ \E col \in SeqToSet(UserColumns), pos \in {"left", "right"} : PinColumn(col, pos)
    \/ ResetColumnPinning
    \/ ToggleVisibility("status")
    \/ ResizeColumn("name", FrameWidth)
    \/ \E v \in SortFilterTerms : HandleFilterChange("name", v)
    \/ HandleApplyFilters
    \/ HandleClearFilters
    \/ SetGlobalFilter(<<"B", "a">>)

SpecFrame == InitFrame /\ [][NextFrame]_vars

\* C11: a Clear All step empties the staged filter values and the applied column
\* filters and sets the search term to the empty string, and it leaves the selection,
\* the sort keys, the column pins, the column sizes and the column visibility as
\* they were
C11_ClearAllFrame ==
    [][HandleClearFilters =>
          /\ filterValues' = <<>>
          /\ columnFilters' = {}
          /\ globalFilter' = <<>>
          /\ UNCHANGED <<rowSelection, sorting, columnPinning, columnSizing,
                         columnVisibility>>]_vars

\* Clear All has just run in a state whose selection, sort keys, pins, sizes and
\* visibility all differ from their initial values
C11_Witness ==
    /\ emitted = <<Call("onClear", <<>>)>>
    /\ filterValues = <<>> /\ columnFilters = {} /\ globalFilter = <<>>
    /\ rowSelection # {}
    /\ sorting # <<>>
    /\ columnPinning.left # <<>>
    /\ columnPinning.right # <<>>
    /\ columnSizing # <<>>
    /\ ~GetIsVisible("status")

\* C12: an Unpin All step leaves every column of the columns prop unpinned, keeps
\* select and rowNumber pinned left and rowActions pinned right, and leaves the
\* column visibility, the column sizes, the staged and applied filters, the search
\* term, the sort keys and the selection as they were
C12_UnpinAllFrame ==
    [][ResetColumnPinning =>
          /\ \A col \in SeqToSet(UserColumns) : GetIsPinned(col)' = "none"
          /\ GetIsPinned("select")' = "left"
          /\ GetIsPinned("rowNumber")' = "left"
          /\ GetIsPinned("rowActions")' = "right"
          /\ UNCHANGED <<columnVisibility, columnSizing, columnFilters, filterValues,
                         globalFilter, sorting, rowSelection>>]_vars

\* one column of the columns prop is pinned left and the other right, one of them
\* hidden, while a width is stored, a filter applied, a sort key and a selection set
C12_Witness ==
    /\ GetIsPinned("name") = "left"
    /\ GetIsPinned("status") = "right"
    /\ ~GetIsVisible("status")
    /\ columnSizing # <<>>
    /\ columnFilters # {}
    /\ sorting # <<>>
    /\ rowSelection # {}

(***************************************************************************)
(* C13.  Every step that mutates the selection (a row toggle, select-all   *)
(* on or off, Clear Selection) ends, before the next event is handled,     *)
(* with a call of onSelectionChange whose payload is the selected-row      *)
(* projection of the state the step leads to.                              *)
(***************************************************************************)
SelectionMutation ==
    \/ \E i \in 1..Len(data) : ToggleRowSelected(i)
    \/ ToggleAllRowsSelected
    \/ ToggleAllPageRowsSelected
    \/ ClearSelection

C13_MutationNotifies ==
    [][(SelectionMutation \/ rowSelection' # rowSelection) =>
          /\ emitted' # <<>>
          /\ emitted'[Len(emitted')].fn = "onSelectionChange"
          /\ emitted'[Len(emitted')].arg = FilteredSelectedRows(rowSelection)']_vars

\* a selection step has just run while a filter hides a selected row: the payload
\* holds the selected rows in view, fewer than the selection set has ids
C13_Witness ==
    /\ Len(emitted) = 1
    /\ emitted[1].fn = "onSelectionChange"
    /\ emitted[1].arg # <<>>
    /\ emitted[1].arg = FilteredSelectedRows(rowSelection)
    /\ Len(emitted[1].arg) < Cardinality(rowSelection)
    /\ FilterHidesRows

(***************************************************************************)
(* SpecFilters: the filter panel with empty, blank and padded inputs.      *)
(***************************************************************************)
BlankTerms == {<<>>, <<" ">>, <<"a">>, <<"a", " ">>}

InitFilters ==
    /\ data = MkData(NumRows, "ids")
    /\ selectable = FALSE
    /\ hasRowActions = FALSE
    /\ InitState

NextFilters ==
    \/ \E id \in FilterConfigIds, v \in BlankTerms : HandleFilterChange(id, v)
    \/ HandleApplyFilters
    \/ HandleClearFilters
    \/ \E v \in SearchTerms : SetGlobalFilter(v)

SpecFilters == InitFilters /\ [][NextFilters]_vars

(***************************************************************************)
(* C14.  Every Apply Filters step calls onFilterApply once, and no other   *)
(* callback, with exactly the set of {id, value} entries that the step     *)
(* makes the applied column filters.                                       *)
(***************************************************************************)
C14_ApplyNotifiesOnce ==
    [][HandleApplyFilters =>
          /\ Len(emitted') = 1
          /\ emitted'[1].fn = "onFilterApply"
          /\ emitted'[1].arg = columnFilters']_vars

\* Apply Filters has just run with one field filled and the other blank: the
\* payload is the applied list, and it is not the staged list
C14_Witness ==
    /\ Len(emitted) = 1
    /\ emitted[1].fn = "onFilterApply"
    /\ emitted[1].arg = columnFilters
    /\ Cardinality(columnFilters) = 1
    /\ Cardinality(DOMAIN filterValues) = 2

(***************************************************************************)
(* C19.  The applied column filters never hold an entry whose value is     *)
(* empty or made of whitespace only, and the filter badge counts the       *)
(* applied entries; an Apply Filters step makes the applied filters        *)
(* exactly the staged entries whose value is not blank; only Apply Filters *)
(* and Clear All change the applied filters, and Clear All empties them.   *)
(***************************************************************************)
IsBlank(v) == \A k \in 1..Len(v) : v[k] = " "

\* the number in the badge of the Filters button: columnFilters.length
FilterBadgeShown == Cardinality(columnFilters)

C19_AppliedFiltersAreNonBlank ==
    /\ [](/\ \A f \in columnFilters : ~IsBlank(f.value)
          /\ FilterBadgeShown = Cardinality({f \in columnFilters : ~IsBlank(f.value)}))
    /\ [][/\ HandleApplyFilters =>
                columnFilters' = {[id |-> id, value |-> filterValues[id]] :
                                     id \in {x \in DOMAIN filterValues :
                                                ~IsBlank(filterValues[x])}}
          /\ columnFilters' # columnFilters =>
                \/ HandleApplyFilters
                \/ HandleClearFilters /\ columnFilters' = {}]_vars

\* a blank value and a padded value are staged, and Apply Filters has kept the
\* padded one only
C19_Witness ==
    /\ \E x \in DOMAIN filterValues : filterValues[x] = <<" ">>
    /\ \E f \in columnFilters : f.value = <<"a", " ">>
    /\ Len(emitted) = 1
    /\ emitted[1].fn = "onFilterApply"
    /\ FilterBadgeShown = 1

(***************************************************************************)
(* C18.  Column filters and the search term compose by AND.  For every     *)
(* split of the applied column filters into F1 and F2 (on different        *)
(* columns), the rows in view under F1 and F2 together are the rows in     *)
(* view under F1 that are also in view under F2; with a search term that   *)
(* is not empty, the rows in view are the rows that pass the column        *)
(* filters and hold the term, case-insensitively, in one of their cells;   *)
(* a staged value that is blank adds no constraint when applied.           *)
(***************************************************************************)
ViewUnder(cf, gf) == SeqToSet(FilteredRowsOf(cf, gf))

MatchesSearch(r, term) ==
    \E col \in SeqToSet(UserColumns) :
        Includes(ToLowerCase(GetValue(r, col)), ToLowerCase(term))

C18_FiltersComposeByAnd ==
    /\ \A F1 \in SUBSET columnFilters :
          ViewUnder(columnFilters, <<>>)
              = ViewUnder(F1, <<>>) \cap ViewUnder(columnFilters \ F1, <<>>)
    /\ globalFilter # <<>> =>
          ViewUnder(columnFilters, globalFilter)
              = {i \in ViewUnder(columnFilters, <<>>) : MatchesSearch(data[i], globalFilter)}
    /\ LET staged == {x \in DOMAIN filterValues : ~IsBlank(filterValues[x])}
       IN  ViewUnder(ActiveFilters(filterValues), globalFilter)
               = ViewUnder({[id |-> x, value |-> filterValues[x]] : x \in staged},
                           globalFilter)

\* two column filters and a search term are in force, each of the filters hides
\* rows on its own, and a row is in view
C18_Witness ==
    /\ Cardinality(columnFilters) = 2
    /\ globalFilter # <<>>
    /\ \A f \in columnFilters : ViewUnder({f}, <<>>) # ViewUnder({}, <<>>)
    /\ FilteredRows # <<>>
    /\ FilterHidesRows

(***************************************************************************)
(* SpecChrome: every control of the Columns panel and of the resize        *)
(* handles, asked for every column of the table, for each value of the     *)
(* props selectable and rowActions.                                        *)
(***************************************************************************)
ChromeWidths == {30, 700}

NextChrome ==
    \/ \E col \in SeqToSet(TableColumns), pos \in PinPositions : PinColumn(col, pos)
    \/ ResetColumnPinning
    \/ \E col \in SeqToSet(TableColumns) : ToggleVisibility(col)
    \/ \E col \in SeqToSet(TableColumns), w \in ChromeWidths : ResizeColumn(col, w)
    \/ \E col \in SeqToSet(TableColumns) : AutoFitColumn(col)

SpecChrome == InitColumns /\ [][NextChrome]_vars

(***************************************************************************)
(* C15.  Whatever the user does in the Columns panel and on the resize     *)
(* handles, every synthetic column of the table stays visible, stays on    *)
(* its forced side (select and rowNumber left, rowActions right) and keeps *)
(* its width, and no state cell ever holds an entry for it: the requests   *)
(* for a synthetic column find no control and change no state.             *)
(***************************************************************************)
ForcedSide(col) == IF col = "rowActions" THEN "right" ELSE "left"

C15_SyntheticColumnsFixed ==
    \A col \in SeqToSet(TableColumns) \cap SyntheticColumns :
          /\ IsRendered(col)
          /\ GetIsPinned(col) = ForcedSide(col)
          /\ GetSize(col) = DefSize(col)
          /\ col \notin DOMAIN columnVisibility
          /\ col \notin DOMAIN columnSizing
          /\ col \notin SeqToSet(columnPinning.left) \cup SeqToSet(columnPinning.right)

\* all three synthetic columns exist and stand untouched while the columns of the
\* columns prop have been pinned, hidden and resized
C15_Witness ==
    /\ selectable /\ hasRowActions
    /\ C15_SyntheticColumnsFixed
    /\ columnPinning.left # <<>>
    /\ columnPinning.right # <<>>
    /\ \E col \in SeqToSet(UserColumns) : ~GetIsVisible(col)
    /\ DOMAIN columnSizing = SeqToSet(UserColumns)

(***************************************************************************)
(* SpecClick: clicks in the body of the table, with and without the prop   *)
(* selectable, with a row menu.                                            *)
(***************************************************************************)
InitClick ==
    /\ data = MkData(NumRows, "ids")
    /\ selectable \in BOOLEAN
    /\ hasRowActions = TRUE
    /\ InitState

NextClick ==
    \/ \E i \in 1..Len(data), col \in SeqToSet(TableColumns), target \in {"cell", "button", "checkbox"} :
          ClickCell(i, col, target)
    \/ \E i \in 1..Len(data) : ToggleRowSelected(i)
    \/ \E v \in SearchTerms : SetGlobalFilter(v)
    \/ \E col \in SeqToSet(UserColumns) : ToggleSorting(col, FALSE)

SpecClick == InitClick /\ [][NextClick]_vars

(***************************************************************************)
(* C16.  With selectable on, a click on a cell of a column of the columns  *)
(* prop toggles the selection of its row, and a click on a row-number cell *)
(* or on the button of the row menu leaves the selection as it was.        *)
(***************************************************************************)
C16_RowNumberClickKeepsSelection ==
    [][selectable =>
          \A i \in 1..Len(data) :
              /\ \A col \in SeqToSet(UserColumns) :
                    ClickCell(i, col, "cell") => rowSelection' = ToggledSelection(i)
              /\ ClickCell(i, "rowNumber", "cell") => rowSelection' = rowSelection
              /\ ClickCell(i, "rowActions", "button") => rowSelection' = rowSelection]_vars

(***************************************************************************)
(* SpecReset: the DataTable of the second variant file, whose resize       *)
(* handle has another double-click handler; its table options, default     *)
(* column sizes, drag handler and search box are those modelled above.     *)
(***************************************************************************)
\* onDoubleClick of the resize handle and of the header text in that variant:
\* header.column.resetSize() deletes the stored width of the column
ResetSize(col) ==
    /\ IsRendered(col)
    /\ GetCanResize(col)
    /\ columnSizing' = [c \in DOMAIN columnSizing \ {col} |-> columnSizing[c]]
    /\ UNCHANGED afVars
    /\ emitted' = <<>>
    /\ UNCHANGED <<data, selectable, hasRowActions, sorting, columnFilters,
                   columnVisibility, columnPinning, rowSelection, globalFilter,
                   filterValues, selectedRowsData>>

NextReset ==
    \/ \E col \in SeqToSet(TableColumns), w \in ResizeWidths : ResizeColumn(col, w)
    \/ \E col \in SeqToSet(TableColumns) : ResetSize(col)
    \/ \E v \in SearchTerms : SetGlobalFilter(v)

SpecReset == InitColumns /\ [][NextReset]_vars

(***************************************************************************)
(* C17.  In the second variant file, a double-click on the resize handle   *)
(* of a resizable column leaves the column with the width fitted to its    *)
(* content: the width the header text and the cell texts of the rows in    *)
(* view need, within the size bounds of the column.                        *)
(***************************************************************************)
C17_DoubleClickFitsContent ==
    [][\A col \in SeqToSet(TableColumns) :
          ResetSize(col) => GetSize(col)' = AutoFitWidthOf(col, FilteredRows)]_vars

(***************************************************************************)
(* C20.  A click on the header of a sortable column takes the column from  *)
(* unsorted to ascending, from ascending to descending and from descending *)
(* to unsorted: an absent column enters the sort keys, a present one keeps *)
(* its place in them while its direction changes, and the step back to     *)
(* unsorted takes it out of them.  A click on the header of a column that  *)
(* is not sortable leaves the sort keys as they were.                      *)
(***************************************************************************)
\* the place of column col in the sort keys, 0 when it is absent
KeyIndex(keys, col) ==
    IF \E k \in 1..Len(keys) : keys[k].id = col
    THEN CHOOSE k \in 1..Len(keys) : keys[k].id = col
    ELSE 0

C20_HeaderClickCycles ==
    [][\A col \in SeqToSet(TableColumns), multi \in BOOLEAN :
          ToggleSorting(col, multi) =>
              IF ~GetCanSort(col) THEN sorting' = sorting
              ELSE CASE GetIsSorted(col) = "none" ->
                            /\ GetIsSorted(col)' = "asc"
                            /\ KeyIndex(sorting', col) # 0
                     [] GetIsSorted(col) = "asc" ->
                            /\ GetIsSorted(col)' = "desc"
                            /\ KeyIndex(sorting', col) = KeyIndex(sorting, col)
                     [] OTHER ->
                            /\ GetIsSorted(col)' = "none"
                            /\ KeyIndex(sorting', col) = 0]_vars

(***************************************************************************)
(* C21.  Resizing is idempotent.  After a drag of a column to the width w, *)
(* a second drag to w leaves the sizing state as it is, and a drag to the  *)
(* width the column now has leaves that width as it is; after an auto-fit  *)
(* of a column, a second auto-fit leaves the sizing state as it is.        *)
(***************************************************************************)
\* the width column col has when width is the one stored for it
ClampSize(col, width) == Min(Max(DefMinSize(col), width), DefMaxSize(col))

C21_ResizeIdempotent ==
    [][\A col \in SeqToSet(TableColumns) :
          /\ \A w \in ResizeWidths :
                ResizeColumn(col, w) =>
                    LET applied == GetSize(col)'
                        again == ResizedSizing(columnSizing', applied, col, w)
                        same == ResizedSizing(columnSizing', applied, col, applied)
                    IN  /\ applied = ClampSize(col, columnSizing'[col])
                        /\ again = columnSizing'
                        /\ ClampSize(col, same[col]) = applied
          /\ AutoFitColumn(col) =>
                (col :> AutoFitWidthOf(col, FilteredRows)') @@ columnSizing'
                    = columnSizing']_vars

\* a column was dragged to a width outside its bounds, so that the width stored
\* and the width applied differ, and another column was auto-fitted
C21_Witness ==
    /\ \E col \in DOMAIN columnSizing : columnSizing[col] # GetSize(col)
    /\ \E col \in DOMAIN columnSizing :
          columnSizing[col] = AutoFitWidthOf(col, FilteredRows)

(***************************************************************************)
(* C22.  In every state the left offset of a rendered left-pinned column   *)
(* is the sum of the widths of the left-pinned columns rendered before it, *)
(* and the right offset of a rendered right-pinned column is the sum of    *)
(* the widths of the right-pinned columns rendered after it.  So the first *)
(* left-pinned column has offset 0, rowNumber follows select at the width  *)
(* of select, each pinned column begins where its neighbour ends, and a    *)
(* drag of a left-pinned column moves the left-pinned columns behind it by *)
(* the change of its width.                                                *)
(***************************************************************************)
\* the places in RenderedColumns of the columns pinned to side
PlacesOf(side) == {k \in 1..Len(RenderedColumns) : GetIsPinned(RenderedColumns[k]) = side}

RECURSIVE SumOver(_, _)
SumOver(S, f) ==
    IF S = {} THEN 0
    ELSE LET x == CHOOSE y \in S : TRUE IN f[x] + SumOver(S \ {x}, f)

WidthAt == [k \in 1..Len(RenderedColumns) |-> GetSize(RenderedColumns[k])]

C22_OffsetsAreWidthSums ==
    /\ [](/\ \A k \in PlacesOf("left") :
                GetStart(RenderedColumns[k])
                    = SumOver({j \in PlacesOf("left") : j < k}, WidthAt)
          /\ \A k \in PlacesOf("right") :
                GetAfter(RenderedColumns[k])
                    = SumOver({j \in PlacesOf("right") : j > k}, WidthAt)
          /\ GetStart(RenderedColumns[1]) = 0
          /\ selectable =>
                GetStart("select") = 0 /\ GetStart("rowNumber") = GetSize("select")
          /\ \A k \in PlacesOf("left") :
                (k + 1) \in PlacesOf("left") =>
                    GetStart(RenderedColumns[k + 1])
                        = GetStart(RenderedColumns[k]) + GetSize(RenderedColumns[k])
          /\ \A k \in PlacesOf("right") :
                (k + 1) \in PlacesOf("right") =>
                    GetAfter(RenderedColumns[k])
                        = GetAfter(RenderedColumns[k + 1]) + GetSize(RenderedColumns[k + 1]))
    /\ [][\A col \in SeqToSet(TableColumns), w \in ChromeWidths :
             (ResizeColumn(col, w) /\ GetIsPinned(col) = "left") =>
                 \A k \in PlacesOf("left") :
                     LET c == RenderedColumns[k]
                     IN  k > GetIndex(RenderedColumns, col) =>
                             GetStart(c)' - GetStart(c) = GetSize(col)' - GetSize(col)]_vars

\* both columns of the columns prop are pinned, one to each side, shown and resized
\* away from the default width, next to the three synthetic columns
C22_Witness ==
    /\ selectable /\ hasRowActions
    /\ GetIsPinned("name") = "left" /\ GetIsPinned("status") = "right"
    /\ IsRendered("name") /\ IsRendered("status")
    /\ GetSize("name") # DefSize("name")
    /\ "status" \in DOMAIN columnSizing
    /\ GetStart("name") = GetSize("select") + GetSize("rowNumber")
    /\ GetAfter("rowActions") + GetAfter("status") = GetSize("status")

(***************************************************************************)
(* C23.  An edit of a filter field changes the staged filter values only:  *)
(* the applied column filters, the rows in view, the row number of every   *)
(* row and the filter badge are after the edit what they were before it.   *)
(* An edit of the search box takes effect at once: the rows in view after  *)
(* it are the rows that pass the applied column filters and match the      *)
(* term typed.                                                             *)
(***************************************************************************)
C23_FilterEditsAreStaged ==
    [][/\ \A id \in FilterConfigIds, v \in BlankTerms :
              HandleFilterChange(id, v) =>
                  /\ filterValues'[id] = v
                  /\ columnFilters' = columnFilters
                  /\ globalFilter' = globalFilter
                  /\ FilteredRows' = FilteredRows
                  /\ \A i \in 1..Len(data) : RowNumberShown(i)' = RowNumberShown(i)
                  /\ FilterBadgeShown' = FilterBadgeShown
       /\ \A v \in SearchTerms :
              SetGlobalFilter(v) =>
                  /\ columnFilters' = columnFilters
                  /\ SeqToSet(FilteredRows')
                        = {i \in ViewUnder(columnFilters, <<>>) :
                              v # <<>> => MatchesSearch(data[i], v)}]_vars

\* a value is staged that would change the view if it were applied, while the view
\* shows the effect of the search term only
C23_Witness ==
    /\ columnFilters = {}
    /\ ActiveFilters(filterValues) # {}
    /\ ViewUnder(ActiveFilters(filterValues), globalFilter) # SeqToSet(FilteredRows)
    /\ globalFilter # <<>>
    /\ FilterHidesRows
    /\ FilterBadgeShown = 0

(***************************************************************************)
(* C24.  With selectable on and an onRowClick handler given, a click on a  *)
(* cell of a column of the columns prop, outside any button, link or       *)
(* checkbox, toggles the selection of the row and calls onRowClick with    *)
(* that row.                                                               *)
(***************************************************************************)
C24_DataCellClickCallsOnRowClick ==
    [][selectable =>
          \A i \in 1..Len(data), col \in SeqToSet(UserColumns) :
              ClickCell(i, col, "cell") =>
                  /\ rowSelection' = ToggledSelection(i)
                  /\ \E k \in 1..Len(emitted') :
                        emitted'[k].fn = "onRowClick" /\ emitted'[k].arg = data[i]]_vars

(***************************************************************************)
(* SpecBulk: selection, search and the buttons of the bulk actions.        *)
(***************************************************************************)
InitBulk ==
    /\ data \in {MkData(NumRows, "ids"), MkData(NumRows, "noids")}
    /\ selectable = TRUE
    /\ hasRowActions = FALSE
    /\ InitState

NextBulk ==
    \/ \E i \in 1..Len(data) : ToggleRowSelected(i)
    \/ ToggleAllRowsSelected
    \/ ClearSelection
    \/ \E v \in SearchTerms : SetGlobalFilter(v)
    \/ \E action \in BulkActions, accepted \in BOOLEAN : BulkActionClick(action, accepted)

SpecBulk == InitBulk /\ [][NextBulk]_vars

(***************************************************************************)
(* C25.  A click on a bulk action with a confirmMessage first asks for     *)
(* confirmation and calls the action only when the answer is yes; a bulk   *)
(* action that is called gets exactly the selected-row projection of the   *)
(* current state; no click on a bulk action changes the selection, the     *)
(* filters, the sort keys or the column layout; and no bulk action is      *)
(* called whose disabled predicate holds of the current projection.        *)
(***************************************************************************)
BulkCalls(calls) == {k \in 1..Len(calls) : calls[k].fn = "bulkAction.onClick"}

C25_BulkActionGetsProjection ==
    [][\A action \in BulkActions, accepted \in BOOLEAN :
          BulkActionClick(action, accepted) =>
              LET called == BulkCalls(emitted')
                  projection == FilteredSelectedRows(rowSelection)
              IN  /\ action.hasConfirmMessage =>
                        /\ emitted'[1].fn = "confirm"
                        /\ called = (IF accepted THEN {2} ELSE {})
                  /\ ~action.hasConfirmMessage => called = {1}
                  /\ \A k \in called :
                        /\ emitted'[k].arg.label = action.label
                        /\ emitted'[k].arg.rows = projection
                  /\ called # {} => ~IsDisabled(action, projection)
                  /\ UNCHANGED <<rowSelection, columnFilters, filterValues, globalFilter,
                                 sorting, columnPinning, columnSizing,
                                 columnVisibility>>]_vars

(***************************************************************************)
(* C26.  In every state with selectable on, the "N selected" of the header *)
(* is the number of rows of the selected-row projection, which is the      *)
(* "N rows selected" of the bulk actions toolbar.                          *)
(***************************************************************************)
\* the "N rows selected" of the toolbar: selectedRowsData.length
BulkCountShown == Len(selectedRowsData)

C26_HeaderCountIsProjectionCount ==
    selectable => SelectedCountShown = BulkCountShown

(***************************************************************************)
(* C27.  With selectable on, one click in a row (on a cell of the columns  *)
(* prop, on the row-number cell, on the select cell beside the checkbox,   *)
(* on the checkbox) has at most one handler toggle the row: the click      *)
(* either leaves the selection as it was, no handler having toggled, or    *)
(* leaves the row toggled, exactly one handler having toggled.             *)
(***************************************************************************)
C27_OneToggleAtMost ==
    [][selectable =>
          \A i \in 1..Len(data), col \in SeqToSet(TableColumns) :
              \A target \in CellTargets(col) :
                  (/\ sorting' = sorting /\ globalFilter' = globalFilter
                   /\ rowSelection' \in {rowSelection, ToggledSelection(i)}
                   /\ ClickCell(i, col, target)) =>
                      LET n == Len(TogglingHandlers(col, target))
                      IN  /\ n <= 1
                          /\ n = 0 => rowSelection' = rowSelection
                          /\ n = 1 => /\ rowSelection' = ToggledSelection(i)
                                      /\ GetIsSelected(i)' # GetIsSelected(i)]_vars

\* a click has just selected a row by the tr handler (onRowClick ran as well) while
\* another row was selected already
C27_Witness ==
    /\ selectable
    /\ Len(emitted) = 2
    /\ emitted[1].fn = "onRowClick"
    /\ emitted[2].fn = "onSelectionChange"
    /\ Cardinality(rowSelection) = 2

(***************************************************************************)
(* C28.  In every dataset whose present id fields are pairwise distinct,   *)
(* getRowId gives distinct rows distinct identities, and toggling one row  *)
(* changes neither the selection state nor the row number of another row.  *)
(***************************************************************************)
\* the id fields that are present in the data prop are pairwise distinct
PresentIdsDistinct ==
    \A i, j \in 1..Len(data) :
        (data[i].hasId /\ data[j].hasId /\ data[i].id = data[j].id) => i = j

C28_DistinctRowsDistinctIdentities ==
    [][PresentIdsDistinct =>
          \A i \in 1..Len(data) :
              ToggleRowSelected(i) =>
                  \A j \in 1..Len(data) \ {i} :
                      /\ RowId(j) # RowId(i)
                      /\ GetIsSelected(j)' = GetIsSelected(j)
                      /\ RowNumberShown(j)' = RowNumberShown(j)]_vars

(***************************************************************************)
(* The AdvancedFilter component: its inputs are staged in localValues and  *)
(* handed to onApply by the Apply button.  The values prop stays the       *)
(* object of the mount, so the effect that copies it runs only then.       *)
(***************************************************************************)
\* the configs prop: one text filter and one number filter
AdvancedFilterConfigs ==
    {[id |-> "name", type |-> "text"], [id |-> "age", type |-> "number"]}

ConfigIds == {config.id : config \in AdvancedFilterConfigs}

ConfigOf(configId) == CHOOSE config \in AdvancedFilterConfigs : config.id = configId

\* what e.target.value can be after an edit of a text input and of a number input
TextInputs == {<<>>, <<"a">>}
NumberInputs == {<<>>, <<"5">>}

\* the setLocalValues calls one render can queue
MaxPending == 2

RECURSIVE ToNumber(_)
\* Number(s) of a string of decimal digits; Number('') is 0
ToNumber(s) ==
    IF s = <<>> THEN 0
    ELSE 10 * ToNumber(SubSeq(s, 1, Len(s) - 1))
            + (CHOOSE d \in 0..9 : Digits[d + 1] = s[Len(s)])

\* the FilterValue objects { text } and { number }; a field left out is undefined
TextValue(s) == [hasText |-> TRUE, text |-> s, hasNumber |-> FALSE, number |-> 0]
NumberValue(n) == [hasText |-> FALSE, text |-> <<>>, hasNumber |-> TRUE, number |-> n]

\* the object the onChange of the input of a config hands to onChange(configId, _)
NewValue(configId, input) ==
    IF ConfigOf(configId).type = "number"
    THEN NumberValue(ToNumber(input))
    ELSE TextValue(input)

\* the test of hasActiveFilters and of the count:
\* value && (value.text || value.number !== undefined || ...)
IsActiveValue(values, key) ==
    /\ key \in DOMAIN values
    /\ \/ (values[key].hasText /\ values[key].text # <<>>)
       \/ values[key].hasNumber

HasActiveFilters == \E key \in DOMAIN localValues : IsActiveValue(localValues, key)

ActiveFilterCount ==
    Cardinality({key \in DOMAIN localValues : IsActiveValue(localValues, key)})

\* the value prop of the Input of a config: value.text || '' and value.number || ''
InputShown(configId) ==
    IF configId \notin DOMAIN localValues THEN <<>>
    ELSE LET value == localValues[configId]
         IN  IF ConfigOf(configId).type = "number"
             THEN IF value.hasNumber /\ value.number # 0
                  THEN NumToString(value.number) ELSE <<>>
             ELSE IF value.hasText THEN value.text ELSE <<>>

\* onChange(configId, newValue) after an edit that leaves input in the field: the
\* new object is built from the localValues of the last render
AfOnChange(configId, input) ==
    /\ configId \in ConfigIds
    /\ input \in (IF ConfigOf(configId).type = "number" THEN NumberInputs ELSE TextInputs)
    /\ input # InputShown(configId)
    /\ Len(pendingValues) < MaxPending
    /\ pendingValues' =
          Append(pendingValues, (configId :> NewValue(configId, input)) @@ localValues)
    /\ emitted' = <<>>
    /\ UNCHANGED <<data, selectable, hasRowActions, sorting, columnFilters,
                   columnVisibility, columnPinning, rowSelection, globalFilter,
                   filterValues, columnSizing, selectedRowsData, localValues>>

\* clearAll(): the Clear button is disabled without an active filter
AfClearAll ==
    /\ HasActiveFilters
    /\ Len(pendingValues) < MaxPending
    /\ pendingValues' = Append(pendingValues, <<>>)
    /\ emitted' = <<Call("onClear", <<>>)>>
    /\ UNCHANGED <<data, selectable, hasRowActions, sorting, columnFilters,
                   columnVisibility, columnPinning, rowSelection, globalFilter,
                   filterValues, columnSizing, selectedRowsData, localValues>>

\* applyFilters()
AfApplyFilters ==
    /\ emitted' = <<Call("onApply", localValues)>>
    /\ UNCHANGED <<data, selectable, hasRowActions, sorting, columnFilters,
                   columnVisibility, columnPinning, rowSelection, globalFilter,
                   filterValues, columnSizing, selectedRowsData, localValues,
                   pendingValues>>

\* the next render: the state is the argument of the last setLocalValues call
AfRender ==
    /\ pendingValues # <<>>
    /\ localValues' = pendingValues[Len(pendingValues)]
    /\ pendingValues' = <<>>
    /\ emitted' = <<>>
    /\ UNCHANGED <<data, selectable, hasRowActions, sorting, columnFilters,
                   columnVisibility, columnPinning, rowSelection, globalFilter,
                   filterValues, columnSizing, selectedRowsData>>

InitAdvanced ==
    /\ data = MkData(NumRows, "ids")
    /\ selectable = FALSE
    /\ hasRowActions = FALSE
    /\ InitState

NextAdvanced ==
    \/ \E configId \in ConfigIds, input \in TextInputs \cup NumberInputs :
          AfOnChange(configId, input)
    \/ AfClearAll
    \/ AfApplyFilters
    \/ AfRender

SpecAdvanced == InitAdvanced /\ [][NextAdvanced]_vars

(***************************************************************************)
(* C29.  In AdvancedFilter a filter counts as active only while its input  *)
(* shows a non-empty value: after a number is typed into a number filter   *)
(* and deleted again, so that the field is shown empty, the filter is      *)
(* inactive, the count leaves it out and Clear is disabled without others. *)
(***************************************************************************)
C29_ActiveOnlyWhileShown ==
    /\ \A configId \in ConfigIds :
          IsActiveValue(localValues, configId) => InputShown(configId) # <<>>
    /\ ActiveFilterCount =
          Cardinality({configId \in ConfigIds : InputShown(configId) # <<>>})
    /\ HasActiveFilters <=> \E configId \in ConfigIds : InputShown(configId) # <<>>

(***************************************************************************)
(* C30.  Two changes of filter fields of different ids made before the     *)
(* component renders again are both kept in the staged values, in          *)
(* DataTable.handleFilterChange and in AdvancedFilter.onChange, and a      *)
(* later Apply passes on the staged values.                                *)
(***************************************************************************)
\* the ids whose value in the object handed to setLocalValues is not the rendered one
ChangedIn(values) ==
    {id \in DOMAIN values : id \notin DOMAIN localValues \/ values[id] # localValues[id]}

C30_NoLostUpdate ==
    [][/\ AfRender =>
            \A k \in 1..Len(pendingValues) : \A id \in ChangedIn(pendingValues[k]) :
                \/ \E m \in (k + 1)..Len(pendingValues) :
                      pendingValues[m] = <<>> \/ id \in ChangedIn(pendingValues[m])
                \/ /\ id \in DOMAIN localValues'
                   /\ localValues'[id] = pendingValues[k][id]
       /\ AfApplyFilters =>
            emitted' = <<Call("onApply", localValues)>>
       /\ \A filterId \in FilterConfigIds, value \in FilterTerms :
            HandleFilterChange(filterId, value) =>
                \A other \in DOMAIN filterValues \ {filterId} :
                    /\ other \in DOMAIN filterValues'
                    /\ filterValues'[other] = filterValues[other]]_vars

====
